---- MODULE Spec2Model ----
(***************************************************************************)
(* Model of the power-flow dataset repository:                             *)
(*   - the ring/mesh topology builder (add_ring_bus_from_to,               *)
(*     create_grid_topo),                                                  *)
(*   - the perturbation sampler (PowerFlowDataset.generate_samples),       *)
(*   - the residual function (PowerFlowDataset.compute_residual).          *)
(* Three specifications share the variables; each one pins the variables   *)
(* of the other two parts to their idle values.                            *)
(***************************************************************************)
EXTENDS Integers, Sequences, FiniteSets, TLC

VARIABLES
    \* topology builder
    grid_data,      \* the grid_data dictionary
    raised,         \* exception that left the builder, or "none"
    calls,          \* history of the add_ring_bus_from_to calls
    \* sampler
    pc,             \* position in generate_samples
    nets,           \* the network objects: object name -> contents
    base_net,       \* self.base_net: the object it refers to
    net,            \* local net of generate_samples: the object it refers to
    net_ill,        \* local net_ill of generate_samples: the object it refers to
    num_samples,    \* self.num_samples
    idx,            \* the loop variable _ of generate_samples
    v_nominal,      \* base-case magnitudes (0.01 pu)
    theta_nominal,  \* base-case angles (degrees)
    v_ill,          \* perturbed initial magnitudes of the current sample
    theta_ill,      \* perturbed initial angles of the current sample
    samples,        \* self.samples
    diagnostics,    \* sample indices printed by the except branch
    solve_log,      \* sample indices handed to the perturbed solver, in order
    retained,       \* sample index of each record of samples, in order
    data_pkl,       \* contents of data.pkl, or "absent"
    dump_count,     \* number of times data.pkl was written
    \* residual function
    res_in,         \* the arguments of a compute_residual call
    res_out,        \* what the call returned
    res_done        \* whether the call has returned

topo_vars == <<grid_data, raised, calls>>

gen_vars == <<pc, nets, base_net, net, net_ill, num_samples, idx, v_nominal,
              theta_nominal, v_ill, theta_ill, samples, diagnostics, solve_log,
              retained, data_pkl, dump_count>>

res_vars == <<res_in, res_out, res_done>>

vars == <<topo_vars, gen_vars, res_vars>>

(***************************************************************************)
(* Bounds of the topology model.                                           *)
(***************************************************************************)
MaxRings == 3
MaxRingNum == 4
MaxNegRingNum == 1

RingNums == (0 - MaxNegRingNum)..MaxRingNum

(***************************************************************************)
(* Python list primitives used by the builder.                             *)
(***************************************************************************)
\* range with the end included (off by one)
PyRangeInclusive(a, b) == IF b < a THEN <<>> ELSE [k \in 1..(b - a + 1) |-> a + k - 1]

\* list(range(a, b)): a, a+1, ..., b-1; empty when b <= a
PyRange(a, b) == IF b <= a THEN <<>> ELSE [k \in 1..(b - a) |-> a + k - 1]

\* s[-1] of a non-empty list
PyLast(s) == s[Len(s)]

\* s[:-1]: everything but the last element; empty for an empty list
PyInit(s) == IF Len(s) = 0 THEN <<>> ELSE SubSeq(s, 1, Len(s) - 1)

\* s[0:] in place of s[1:]
PyTailAll(s) == s

\* s[1:]: everything but the first element; empty for an empty list
PyTail(s) == IF Len(s) = 0 THEN <<>> ELSE SubSeq(s, 2, Len(s))

\* the grid_data dictionary of create_grid_topo before the first ring
FreshGridData ==
    [id_end |-> 10, mv_bus |-> 0, line_from |-> <<>>, line_to |-> <<>>, buses |-> <<>>]

\* the builder before its first call
TopoIdle ==
    /\ grid_data = FreshGridData
    /\ raised = "none"
    /\ calls = <<>>

(***************************************************************************)
(* A variant of the builder that advances id_end by the requested count    *)
(* instead of reading buses[-1]: an empty ring then fails one line later,  *)
(* at buses[0], with id_end already rewritten.                             *)
(***************************************************************************)
add_ring_id_end_by_count(gd, n_ring_num, is_mesh) ==
    LET id_end == gd.id_end
        buses == PyRange(id_end, id_end + n_ring_num)
        gd1 == [gd EXCEPT !.buses = @ \o buses]
        gd2 == [gd1 EXCEPT !.id_end = id_end + n_ring_num]
    IN  IF Len(buses) = 0
        THEN [exc |-> "IndexError", grid_data |-> gd2]
        ELSE LET gd3 == [gd2 EXCEPT !.line_from = Append(@, buses[1]),
                                    !.line_to = Append(@, gd2.mv_bus)]
                 gd4 == [gd3 EXCEPT !.line_from = @ \o PyInit(buses),
                                    !.line_to = @ \o PyTail(buses)]
                 gd5 == IF is_mesh
                        THEN [gd4 EXCEPT !.line_from = Append(@, buses[1]),
                                         !.line_to = Append(@, PyLast(buses))]
                        ELSE gd4
             IN  [exc |-> "none", grid_data |-> gd5]

(***************************************************************************)
(* add_ring_bus_from_to, statement by statement.  The result carries the   *)
(* dictionary as the call leaves it and the exception it ends with         *)
(* ("none" when it returns).  buses[-1] and buses[0] of an empty list      *)
(* raise IndexError; the first of them is reached on line 12.              *)
(***************************************************************************)
add_ring_bus_from_to(gd, n_ring_num, is_mesh) ==
    LET id_end == gd.id_end
        buses == PyRange(id_end, id_end + n_ring_num)
        gd1 == [gd EXCEPT !.buses = @ \o buses]
    IN  IF Len(buses) = 0
        THEN [exc |-> "IndexError", grid_data |-> gd1]
        ELSE LET gd2 == [gd1 EXCEPT !.id_end = PyLast(buses) + 1]
                 gd3 == [gd2 EXCEPT !.line_from = Append(@, buses[1]),
                                    !.line_to = Append(@, gd2.mv_bus)]
                 gd4 == [gd3 EXCEPT !.line_from = @ \o PyInit(buses),
                                    !.line_to = @ \o PyTail(buses)]
                 gd5 == IF is_mesh
                        THEN [gd4 EXCEPT !.line_from = Append(@, buses[1]),
                                         !.line_to = Append(@, PyLast(buses))]
                        ELSE gd4
             IN  [exc |-> "none", grid_data |-> gd5]

(***************************************************************************)
(* Complex numbers as records of integers; numpy's vector and matrix       *)
(* operations on them.                                                     *)
(***************************************************************************)
Cx(a, b) == [re |-> a, im |-> b]

CZero == Cx(0, 0)

CAdd(x, y) == Cx(x.re + y.re, x.im + y.im)

CSub(x, y) == Cx(x.re - y.re, x.im - y.im)

CMul(x, y) == Cx(x.re * y.re - x.im * y.im, x.re * y.im + x.im * y.re)

\* a conjugate that is left out
CConjMissing(x) == x

\* np.conj
CConj(x) == Cx(x.re, 0 - x.im)

\* x scaled by the real number m
CScale(m, x) == Cx(m * x.re, m * x.im)

\* np.deg2rad, on angles that are whole quarter turns: degrees to units of
\* pi/2 radians
Deg2Rad(d) == d \div 90

\* np.exp(q * 1j) for q in units of pi/2 radians
CExpJ(q) ==
    CASE q % 4 = 0 -> Cx(1, 0)
      [] q % 4 = 1 -> Cx(0, 1)
      [] q % 4 = 2 -> Cx(-1, 0)
      [] q % 4 = 3 -> Cx(0, -1)

RECURSIVE CSumSeq(_)
CSumSeq(xs) == IF xs = <<>> THEN CZero ELSE CAdd(xs[1], CSumSeq(Tail(xs)))

\* M @ x for a matrix (sequence of rows) and a vector
MatVec(M, x) ==
    [k \in 1..Len(M) |-> CSumSeq([j \in 1..Len(x) |-> CMul(M[k][j], x[j])])]

\* np.diag of a vector
Diag(v) ==
    [k \in 1..Len(v) |-> [j \in 1..Len(v) |-> IF j = k THEN v[k] ELSE CZero]]

(***************************************************************************)
(* PowerFlowDataset.compute_residual                                       *)
(***************************************************************************)
compute_residual(V_mag, V_ang, Ybus, S) ==
    LET V_rad == [k \in 1..Len(V_ang) |-> Deg2Rad(V_ang[k])]
        complex_v == [k \in 1..Len(V_mag) |-> CScale(V_mag[k], CExpJ(V_rad[k]))]
        current == MatVec(Ybus, complex_v)
        diag_V == Diag(complex_v)
        conj_current == [k \in 1..Len(current) |-> CConj(current[k])]
        product == MatVec(diag_V, conj_current)
        residual == [k \in 1..Len(product) |-> CSub(product[k], S[k])]
    IN  PyTail(residual)

(***************************************************************************)
(* compute_residual on its own: one call on arguments drawn from small     *)
(* sets, for networks of 1 to MaxBuses buses.                              *)
(***************************************************************************)
MaxBuses == 2

MagValues == {1, 2}

AngleValues == {0, -90}

AdmittanceValues == {Cx(1, -1), Cx(0, 1)}

InjectionValues == {Cx(0, 0), Cx(-1, -2)}

ResidualInputs(n) ==
    [V_mag : [1..n -> MagValues],
     V_ang : [1..n -> AngleValues],
     Ybus : [1..n -> [1..n -> AdmittanceValues]],
     S : [1..n -> InjectionValues]]

NoInput == [V_mag |-> <<>>, V_ang |-> <<>>, Ybus |-> <<>>, S |-> <<>>]

ResIdle ==
    /\ res_in = NoInput
    /\ res_out = <<>>
    /\ res_done = FALSE

(***************************************************************************)
(* The sampler.  Magnitudes are in units of 0.01 pu, angles in degrees.    *)
(***************************************************************************)
\* bounds of the sampler model
MaxSamples == 2
MaxIter == 2

\* perturbation radii of the script's PowerFlowDataset (0.15 pu, 30 degrees)
v_perturb == 15
theta_perturb == 30

\* the two-bus network of SimpleTwoBus as the solver sees it: bus admittance
\* matrix and injection vector, and no results yet
TwoBusNetwork ==
    [Ybus |-> << <<Cx(1, -1), Cx(-1, 1)>>, <<Cx(-1, 1), Cx(1, -1)>> >>,
     Sbus |-> <<Cx(0, 0), Cx(-10, -5)>>,
     status |-> "unsolved",
     vm_pu |-> <<>>, va_degree |-> <<>>, iterations |-> 0]

\* what a converged solve may report for the bus voltages
Solutions ==
    { [vm_pu |-> <<120, 118>>, va_degree |-> <<0, 0>>],
      [vm_pu |-> <<120, 60>>, va_degree |-> <<0, -90>>] }

Absent == [status |-> "absent"]

ObjectNames == {"base_network", "base_net", "net", "net_ill"}

\* a copy that shares the object instead of duplicating it
DeepCopyAlias(heap, src, fresh) == [ref |-> src, heap |-> heap]

\* x.deepcopy(): a new object with the contents of src
DeepCopy(heap, src, fresh) ==
    [ref |-> fresh, heap |-> [heap EXCEPT ![fresh] = heap[src]]]

\* pp.runpp on the object ref, converging: results and solver internals are
\* written into that object
RunppConverged(heap, ref, sol, it) ==
    [heap EXCEPT ![ref] = [@ EXCEPT !.status = "converged",
                                    !.vm_pu = sol.vm_pu,
                                    !.va_degree = sol.va_degree,
                                    !.iterations = it]]

\* pp.runpp on the object ref, raising LoadflowNotConverged
RunppNotConverged(heap, ref) ==
    [heap EXCEPT ![ref] = [@ EXCEPT !.status = "not_converged"]]

\* the points of np.random.uniform(-r, r) the model draws: the two ends of
\* the interval
Uniform(r) == {0 - r, r}

\* np.random.uniform(-r, r, n)
UniformVectors(r, n) == [1..n -> Uniform(r)]

\* a draw of twice the radius
PerturbDouble(nominal, draw) == [k \in 1..Len(nominal) |-> nominal[k] + 2 * draw[k]]

\* nominal + np.random.uniform(...)
Perturb(nominal, draw) == [k \in 1..Len(nominal) |-> nominal[k] + draw[k]]

\* the iteration count of the perturbed solve
IterationsOfPerturbed(base_obj, ill_obj) == ill_obj.iterations

\* it = net._ppc["iterations"]: read from the base-case object
RecordedIterations(base_obj, ill_obj) == base_obj.iterations

re_part(xs) == [k \in 1..Len(xs) |-> xs[k].re]

im_part(xs) == [k \in 1..Len(xs) |-> xs[k].im]

\* M.flatten() of a matrix given as rows
RECURSIVE Flatten(_)
Flatten(M) == IF M = <<>> THEN <<>> ELSE M[1] \o Flatten(Tail(M))

\* the dictionary appended to self.samples
SampleRecord(base_obj, ill_obj, vi, ti) ==
    LET Ybus == ill_obj.Ybus
        S == ill_obj.Sbus
        it == RecordedIterations(base_obj, ill_obj)
        V_mag == ill_obj.vm_pu
        V_ang == ill_obj.va_degree
        resd == compute_residual(V_mag, V_ang, Ybus, S)
    IN  [P |-> re_part(S), Q |-> im_part(S),
         G |-> re_part(Flatten(Ybus)), B |-> im_part(Flatten(Ybus)),
         V_init |-> vi, theta_init |-> ti,
         iterations |-> it,
         V_pred |-> V_mag, Phi_pred |-> V_ang,
         resd_real |-> re_part(resd), resd_imag |-> im_part(resd)]

\* PowerFlowDataset.__init__ up to the call of generate_samples
ConstructedHeap ==
    DeepCopy([o \in ObjectNames |->
                 IF o = "base_network" THEN TwoBusNetwork ELSE Absent],
             "base_network", "base_net")

GenStart(n) ==
    /\ pc = "start"
    /\ nets = ConstructedHeap.heap
    /\ base_net = ConstructedHeap.ref
    /\ net = "none"
    /\ net_ill = "none"
    /\ num_samples = n
    /\ idx = 0
    /\ v_nominal = <<>>
    /\ theta_nominal = <<>>
    /\ v_ill = <<>>
    /\ theta_ill = <<>>
    /\ samples = <<>>
    /\ diagnostics = <<>>
    /\ solve_log = <<>>
    /\ retained = <<>>
    /\ data_pkl = "absent"
    /\ dump_count = 0

GenIdle == GenStart(0)

GenInit ==
    /\ \E n \in 0..MaxSamples : GenStart(n)
    /\ TopoIdle
    /\ ResIdle

\* net = self.base_net.deepcopy()
BaseCopy ==
    /\ pc = "start"
    /\ LET c == DeepCopy(nets, base_net, "net")
       IN  /\ nets' = c.heap
           /\ net' = c.ref
    /\ pc' = "base_solve"
    /\ UNCHANGED <<base_net, net_ill, num_samples, idx, v_nominal, theta_nominal,
                   v_ill, theta_ill, samples, diagnostics, solve_log, retained,
                   data_pkl, dump_count>>
    /\ UNCHANGED <<topo_vars, res_vars>>

\* pp.runpp(net, max_iteration=100) converges; the nominal solution is read
BaseSolveConverged ==
    /\ pc = "base_solve"
    /\ \E sol \in Solutions, it \in 1..MaxIter :
          LET h == RunppConverged(nets, net, sol, it)
          IN  /\ nets' = h
              /\ v_nominal' = h[net].vm_pu
              /\ theta_nominal' = h[net].va_degree
    /\ pc' = "loop"
    /\ idx' = 0
    /\ UNCHANGED <<base_net, net, net_ill, num_samples, v_ill, theta_ill, samples,
                   diagnostics, solve_log, retained, data_pkl, dump_count>>
    /\ UNCHANGED <<topo_vars, res_vars>>

\* a base-case failure that falls through to the loop instead of returning
BaseSolveNotConvergedFallThrough ==
    /\ pc = "base_solve"
    /\ nets' = RunppNotConverged(nets, net)
    /\ pc' = "loop"
    /\ UNCHANGED <<base_net, net, net_ill, num_samples, idx, v_nominal,
                   theta_nominal, v_ill, theta_ill, samples, diagnostics,
                   solve_log, retained, data_pkl, dump_count>>
    /\ UNCHANGED <<topo_vars, res_vars>>

\* pp.runpp(net, max_iteration=100) raises LoadflowNotConverged: return
BaseSolveNotConverged ==
    /\ pc = "base_solve"
    /\ nets' = RunppNotConverged(nets, net)
    /\ pc' = "returned"
    /\ UNCHANGED <<base_net, net, net_ill, num_samples, idx, v_nominal,
                   theta_nominal, v_ill, theta_ill, samples, diagnostics,
                   solve_log, retained, data_pkl, dump_count>>
    /\ UNCHANGED <<topo_vars, res_vars>>

\* loop head and the statements before the try: copy the base network and
\* draw the perturbed initial guess
DrawSample ==
    /\ pc = "loop"
    /\ idx < num_samples
    /\ LET c == DeepCopy(nets, base_net, "net_ill")
       IN  /\ nets' = c.heap
           /\ net_ill' = c.ref
    /\ \E dv \in UniformVectors(v_perturb, Len(v_nominal)),
          dt \in UniformVectors(theta_perturb, Len(theta_nominal)) :
          /\ v_ill' = Perturb(v_nominal, dv)
          /\ theta_ill' = Perturb(theta_nominal, dt)
    /\ pc' = "solve"
    /\ UNCHANGED <<base_net, net, num_samples, idx, v_nominal, theta_nominal,
                   samples, diagnostics, solve_log, retained, data_pkl, dump_count>>
    /\ UNCHANGED <<topo_vars, res_vars>>

\* the try body: the perturbed solve converges and the record is appended
SolveConverged ==
    /\ pc = "solve"
    /\ \E sol \in Solutions, it \in 1..MaxIter :
          LET h == RunppConverged(nets, net_ill, sol, it)
          IN  /\ nets' = h
              /\ samples' = Append(samples,
                                   SampleRecord(h[net], h[net_ill], v_ill, theta_ill))
    /\ solve_log' = Append(solve_log, idx)
    /\ retained' = Append(retained, idx)
    /\ idx' = idx + 1
    /\ pc' = "loop"
    /\ UNCHANGED <<base_net, net, net_ill, num_samples, v_nominal, theta_nominal,
                   v_ill, theta_ill, diagnostics, data_pkl, dump_count>>
    /\ UNCHANGED <<topo_vars, res_vars>>

\* an except branch that tries the same sample index again
SolveNotConvergedRetry ==
    /\ pc = "solve"
    /\ nets' = RunppNotConverged(nets, net_ill)
    /\ solve_log' = Append(solve_log, idx)
    /\ diagnostics' = Append(diagnostics, idx)
    /\ idx' = idx
    /\ pc' = "loop"
    /\ UNCHANGED <<base_net, net, net_ill, num_samples, v_nominal, theta_nominal,
                   v_ill, theta_ill, samples, retained, data_pkl, dump_count>>
    /\ UNCHANGED <<topo_vars, res_vars>>

\* an except branch that leaves the loop
SolveNotConvergedBreak ==
    /\ pc = "solve"
    /\ nets' = RunppNotConverged(nets, net_ill)
    /\ solve_log' = Append(solve_log, idx)
    /\ diagnostics' = Append(diagnostics, idx)
    /\ idx' = num_samples
    /\ pc' = "loop"
    /\ UNCHANGED <<base_net, net, net_ill, num_samples, v_nominal, theta_nominal,
                   v_ill, theta_ill, samples, retained, data_pkl, dump_count>>
    /\ UNCHANGED <<topo_vars, res_vars>>

\* the perturbed solve raises LoadflowNotConverged: the except branch prints
\* the sample index
SolveNotConverged ==
    /\ pc = "solve"
    /\ nets' = RunppNotConverged(nets, net_ill)
    /\ solve_log' = Append(solve_log, idx)
    /\ diagnostics' = Append(diagnostics, idx)
    /\ idx' = idx + 1
    /\ pc' = "loop"
    /\ UNCHANGED <<base_net, net, net_ill, num_samples, v_nominal, theta_nominal,
                   v_ill, theta_ill, samples, retained, data_pkl, dump_count>>
    /\ UNCHANGED <<topo_vars, res_vars>>

\* after the loop: pickle.dump(self.samples, f)
Dump ==
    /\ pc = "loop"
    /\ idx >= num_samples
    /\ data_pkl' = samples
    /\ dump_count' = dump_count + 1
    /\ pc' = "done"
    /\ UNCHANGED <<nets, base_net, net, net_ill, num_samples, idx, v_nominal,
                   theta_nominal, v_ill, theta_ill, samples, diagnostics,
                   solve_log, retained>>
    /\ UNCHANGED <<topo_vars, res_vars>>

GenNext ==
    \/ BaseCopy
    \/ BaseSolveConverged
    \/ BaseSolveNotConverged
    \/ DrawSample
    \/ SolveConverged
    \/ SolveNotConverged
    \/ Dump

SpecGen == GenInit /\ [][GenNext]_vars

\* one compute_residual call on drawn arguments
ResInit ==
    /\ \E n \in 1..MaxBuses : res_in \in ResidualInputs(n)
    /\ res_out = <<>>
    /\ res_done = FALSE
    /\ TopoIdle
    /\ GenIdle

ComputeResidual ==
    /\ ~res_done
    /\ res_out' = compute_residual(res_in.V_mag, res_in.V_ang, res_in.Ybus, res_in.S)
    /\ res_done' = TRUE
    /\ UNCHANGED <<res_in, topo_vars, gen_vars>>

ResNext == ComputeResidual

SpecRes == ResInit /\ [][ResNext]_vars

(***************************************************************************)
(* The topology builder as a state machine: a caller in the shape of       *)
(* create_grid_topo makes up to MaxRings calls on one dictionary; an       *)
(* exception propagates out of the caller and ends the run.  calls is the  *)
(* history of the calls made (ring size, mesh flag, id_end before the      *)
(* call, outcome).                                                         *)
(***************************************************************************)
TopoInit ==
    /\ TopoIdle
    /\ GenIdle
    /\ ResIdle

AddRing ==
    /\ raised = "none"
    /\ Len(calls) < MaxRings
    /\ \E n \in RingNums, m \in BOOLEAN :
          LET r == add_ring_bus_from_to(grid_data, n, m)
          IN  /\ grid_data' = r.grid_data
              /\ raised' = r.exc
              /\ calls' = Append(calls, [n |-> n, is_mesh |-> m,
                                         id_start |-> grid_data.id_end,
                                         exc |-> r.exc])
    /\ UNCHANGED <<gen_vars, res_vars>>

TopoNext == AddRing

SpecTopo == TopoInit /\ [][TopoNext]_vars

(***************************************************************************)
(* Properties of the topology builder.                                     *)
(***************************************************************************)
RECURSIVE SumRingNum(_)
SumRingNum(cs) == IF cs = <<>> THEN 0 ELSE cs[1].n + SumRingNum(Tail(cs))

RECURSIVE CountMesh(_)
CountMesh(cs) == IF cs = <<>> THEN 0
                 ELSE (IF cs[1].is_mesh THEN 1 ELSE 0) + CountMesh(Tail(cs))

AllRingsReturned == \A k \in 1..Len(calls) : calls[k].n >= 1 /\ calls[k].exc = "none"

\* C1 as stated: with every ring of n_r >= 1 buses, the number of lines is
\* the sum over rings of (n_r - 1) plus one per mesh-enabled ring.
C1_LinesAsStated ==
    AllRingsReturned =>
        /\ Len(grid_data.line_from) = Len(grid_data.line_to)
        /\ Len(grid_data.line_from) =
              (SumRingNum(calls) - Len(calls)) + CountMesh(calls)

\* C1 amended: with every ring of n_r >= 1 buses, line_from and line_to have
\* the same length, the sum over rings of n_r (one feeder line to mv_bus and
\* n_r - 1 chain lines) plus one per mesh-enabled ring.
C1_LineCount ==
    AllRingsReturned =>
        /\ Len(grid_data.line_from) = Len(grid_data.line_to)
        /\ Len(grid_data.line_from) = SumRingNum(calls) + CountMesh(calls)

\* the topology of create_grid_topo itself: a meshed ring and a plain ring
\* of four buses each, nine lines
C1_Witness ==
    /\ Len(calls) = 2
    /\ calls[1].n = 4 /\ calls[1].is_mesh
    /\ calls[2].n = 4 /\ ~calls[2].is_mesh
    /\ raised = "none"
    /\ Len(grid_data.line_from) = 9

\* the lines of a dictionary as (from, to) pairs
LinePairs(gd) == [k \in 1..Len(gd.line_from) |-> <<gd.line_from[k], gd.line_to[k]>>]

NoDuplicates(s) == \A a, b \in 1..Len(s) : a # b => s[a] # s[b]

\* what one call with n >= 1 buses must append, written out index by index
ExpectedBuses(first, n) == [k \in 1..n |-> first + k - 1]

ExpectedLines(first, n, mv, is_mesh) ==
    <<  <<first, mv>>  >>
    \o [k \in 1..(n - 1) |-> <<first + k - 1, first + k>>]
    \o (IF is_mesh THEN <<  <<first, first + n - 1>>  >> ELSE <<>>)

C5_Step ==
    (Len(calls') = Len(calls) + 1 /\ calls'[Len(calls')].n >= 1) =>
        LET c == calls'[Len(calls')]
            first == grid_data.id_end
        IN  /\ c.exc = "none"
            /\ grid_data'.buses = grid_data.buses \o ExpectedBuses(first, c.n)
            /\ grid_data'.id_end = first + c.n
            /\ NoDuplicates(grid_data'.buses)
            /\ Len(grid_data'.line_from) = Len(grid_data'.line_to)
            /\ LinePairs(grid_data') =
                  LinePairs(grid_data)
                  \o ExpectedLines(first, c.n, grid_data.mv_bus, c.is_mesh)
            /\ grid_data'.mv_bus = grid_data.mv_bus

\* C5: each call with n >= 1 appends exactly the identifiers id_end ..
\* id_end + n - 1, advances id_end by n (so rings never share an
\* identifier), and appends the feeder line to mv_bus, the n - 1 chain lines
\* and, only when is_mesh, the closing line from the first to the last bus.
C5_RingAppend == [][C5_Step]_vars

\* a meshed ring of three buses added after an earlier ring
C5_Witness ==
    /\ Len(calls) = 2
    /\ calls[1].exc = "none"
    /\ calls[2].n = 3 /\ calls[2].is_mesh /\ calls[2].exc = "none"
    /\ LinePairs(grid_data)[Len(grid_data.line_from)] =
          <<calls[2].id_start, calls[2].id_start + 2>>

\* C9 as stated: no call raises, whatever n_ring_num is.
C9_NeverRaises == raised = "none"

C9_Step ==
    (Len(calls') = Len(calls) + 1) =>
        LET c == calls'[Len(calls')]
        IN  /\ (c.n >= 1) => (c.exc = "none" /\ raised' = "none")
            /\ (c.n = 1 /\ c.is_mesh) =>
                   LinePairs(grid_data')[Len(grid_data'.line_from)] =
                       <<grid_data.id_end, grid_data.id_end>>
            /\ (c.n <= 0) =>
                   /\ c.exc = "IndexError" /\ raised' = "IndexError"
                   /\ grid_data' = grid_data

\* C9 amended: the builder validates nothing; a call with n_ring_num >= 1
\* returns without raising, also for 1 with is_mesh true, where the closing
\* line runs from the ring's only bus to itself; a call with n_ring_num <= 0
\* raises IndexError at buses[-1] and leaves grid_data as it was.
C9_RaisesOnlyOnEmptyRing == [][C9_Step]_vars

\* a one-bus meshed ring was accepted, then an empty ring raised
C9_Witness ==
    /\ Len(calls) = 2
    /\ calls[1].n = 1 /\ calls[1].is_mesh /\ calls[1].exc = "none"
    /\ calls[2].n = 0 /\ calls[2].exc = "IndexError"
    /\ raised = "IndexError"
    /\ LinePairs(grid_data)[2] = <<10, 10>>

(***************************************************************************)
(* Properties of the sampler.                                              *)
(***************************************************************************)
BaseConverged == net # "none" /\ nets[net].status = "converged"

BaseFailed == net # "none" /\ nets[net].status = "not_converged"

\* C2: once the base case has converged, retained plus discarded samples
\* equal the number of sample indices processed, never exceed num_samples,
\* and equal num_samples when generate_samples has finished.
C2_RetainedPlusDiscarded ==
    BaseConverged =>
        /\ Len(samples) + Len(diagnostics) = idx
        /\ idx <= num_samples
        /\ Len(samples) <= num_samples
        /\ (pc = "done") => (Len(samples) + Len(diagnostics) = num_samples)

\* two samples requested: one retained, one discarded
C2_Witness ==
    /\ pc = "done"
    /\ num_samples = 2
    /\ Len(samples) = 1
    /\ Len(diagnostics) = 1

InRadius(x, nominal, radius) ==
    /\ Len(x) = Len(nominal)
    /\ \A k \in 1..Len(x) : nominal[k] - radius <= x[k] /\ x[k] <= nominal[k] + radius

\* C3: every perturbed initial guess drawn, and the V_init and theta_init of
\* every retained record, lie within the perturbation radius of the
\* base-case solution, bus by bus.
C3_PerturbationInRadius ==
    /\ (pc = "solve") =>
          /\ InRadius(v_ill, v_nominal, v_perturb)
          /\ InRadius(theta_ill, theta_nominal, theta_perturb)
    /\ \A k \in 1..Len(samples) :
          /\ InRadius(samples[k].V_init, v_nominal, v_perturb)
          /\ InRadius(samples[k].theta_init, theta_nominal, theta_perturb)

\* a retained record drawn at opposite ends of both intervals
C3_Witness ==
    /\ Len(samples) = 1
    /\ samples[1].V_init = <<v_nominal[1] + v_perturb, v_nominal[2] - v_perturb>>
    /\ samples[1].theta_init =
          <<theta_nominal[1] - theta_perturb, theta_nominal[2] + theta_perturb>>

StrictlyIncreasing(s) == \A a, b \in 1..Len(s) : a < b => s[a] < s[b]

C6_Step ==
    /\ (Len(diagnostics') = Len(diagnostics) + 1) =>
          /\ samples' = samples
          /\ retained' = retained
          /\ idx' = idx + 1
          /\ pc' = "loop"
    /\ solve_log' = [k \in 1..idx' |-> k - 1]
    /\ Len(retained') = Len(samples')
    /\ StrictlyIncreasing(retained')
    /\ (pc' = "done") => (idx' = num_samples')

\* C6: a perturbed solve that does not converge leaves samples unchanged and
\* moves on to the next index; the solver is invoked exactly once per sample
\* index, in order, up to the last index; records are retained in increasing
\* sample-index order.
C6_SkipAndContinue == [][C6_Step]_vars

\* the first of two samples failed and the second was still solved and kept
C6_Witness ==
    /\ pc = "done"
    /\ num_samples = 2
    /\ diagnostics = <<0>>
    /\ retained = <<1>>
    /\ solve_log = <<0, 1>>

\* C7: every retained record carries the iteration count of the base-case
\* solve, so all records of one dataset carry the same value.
C7_BaseIterations ==
    \A k \in 1..Len(samples) :
        /\ samples[k].iterations = nets[net].iterations
        /\ samples[k].iterations = samples[1].iterations

\* the perturbed solve behind the latest record took a different number of
\* iterations than the base case
C7_Witness ==
    /\ pc = "loop"
    /\ Len(samples) = 2
    /\ retained[2] = idx - 1
    /\ nets[net_ill].iterations # nets[net].iterations
    /\ samples[2].iterations = nets[net].iterations

\* C8: the network passed in and self.base_net are never written by a
\* solve, the three copies are distinct objects, and every perturbed solve
\* starts from an unsolved copy equal to the network passed in.
C8_NoSharedMutation ==
    /\ nets["base_network"] = TwoBusNetwork
    /\ nets[base_net] = TwoBusNetwork
    /\ base_net # "base_network"
    /\ (net # "none") => net \notin {"base_network", base_net}
    /\ (net_ill # "none") => net_ill \notin {"base_network", base_net, net}
    /\ (pc = "solve") => nets[net_ill] = TwoBusNetwork

\* the second sample is about to be solved after the first one converged and
\* wrote its results into its own copy
C8_Witness ==
    /\ pc = "solve"
    /\ idx = 1
    /\ Len(samples) = 1
    /\ nets[net].status = "converged"
    /\ nets[net_ill] = TwoBusNetwork

\* C10: when the base case does not converge, generate_samples has returned
\* with nothing drawn, no perturbed solve, no record and no file; otherwise
\* data.pkl is written exactly once, after every sample index was processed,
\* with exactly the retained records.
C10_BaseFailureReturns ==
    /\ BaseFailed =>
          /\ pc = "returned"
          /\ net_ill = "none"
          /\ v_ill = <<>> /\ theta_ill = <<>>
          /\ solve_log = <<>>
          /\ samples = <<>>
          /\ data_pkl = "absent" /\ dump_count = 0
    /\ dump_count <= 1
    /\ (dump_count = 1) <=> (pc = "done")
    /\ (pc = "done") =>
          /\ BaseConverged
          /\ idx = num_samples
          /\ Len(solve_log) = num_samples
          /\ data_pkl = samples
    /\ (pc # "done") => (data_pkl = "absent")

\* the base case failed with two samples requested
C10_Witness ==
    /\ pc = "returned"
    /\ num_samples = 2
    /\ BaseFailed
    /\ data_pkl = "absent"

\* the other case of C10: the file holds the one retained record of two
C10_WitnessPersisted ==
    /\ pc = "done"
    /\ num_samples = 2
    /\ dump_count = 1
    /\ Len(data_pkl) = 1

(***************************************************************************)
(* Properties of compute_residual.                                         *)
(***************************************************************************)
\* the unit phasor at an angle in degrees, from the cosine and sine of the
\* quarter turns
PhasorDeg(d) ==
    CASE d % 360 = 0 -> Cx(1, 0)
      [] d % 360 = 90 -> Cx(0, 1)
      [] d % 360 = 180 -> Cx(-1, 0)
      [] d % 360 = 270 -> Cx(0, -1)

ComplexVoltage(in, j) == CScale(in.V_mag[j], PhasorDeg(in.V_ang[j]))

RECURSIVE InjectedCurrent(_, _, _)
InjectedCurrent(in, k, j) ==
    IF j = 0 THEN CZero
    ELSE CAdd(InjectedCurrent(in, k, j - 1),
              CMul(in.Ybus[k][j], ComplexVoltage(in, j)))

Mismatch(in, k) ==
    CSub(CMul(ComplexVoltage(in, k),
              Cx(InjectedCurrent(in, k, Len(in.V_mag)).re,
                 0 - InjectedCurrent(in, k, Len(in.V_mag)).im)),
         in.S[k])

\* C4: for n buses compute_residual returns n - 1 entries, and the entry of
\* bus k (the bus at index 0 left out) is V_k * conj(sum_j Ybus[k][j] * V_j)
\* - S_k, with V the complex voltages at the given magnitudes and angles.
C4_ResidualFormula ==
    res_done =>
        /\ Len(res_out) = Len(res_in.V_mag) - 1
        /\ \A k \in 2..Len(res_in.V_mag) : res_out[k - 1] = Mismatch(res_in, k)

\* a two-bus call whose mismatch at the second bus has a real and an
\* imaginary part and whose buses sit at different angles
C4_Witness ==
    /\ res_done
    /\ Len(res_in.V_mag) = 2
    /\ res_in.V_ang = <<0, -90>>
    /\ res_in.Ybus[2][1] # res_in.Ybus[1][2]
    /\ Len(res_out) = 1
    /\ res_out[1].re # 0 /\ res_out[1].im # 0

====
